---- MODULE Spec2Model ----
(***************************************************************************)
(* The page-view counter of web-app/server.js: the GET / handler           *)
(* (cache-aside read of `page_views_total`, atomic UPDATE of               *)
(* visitor_count, DEL of the cache key), initializeDatabase / startServer  *)
(* and the SIGTERM shutdown, against a MySQL table and a Redis key.        *)
(*                                                                         *)
(* Every await of the handler is one action: the step at which the backend *)
(* executes the command, followed by the handler's continuation up to the  *)
(* next await.  Commands of different requests interleave freely (a       *)
(* reply may reach the handler late, so a command may execute at any time  *)
(* after the one before it).  A request starts with its GET and ends with  *)
(* its response, which is a step of its own after the last command.        *)
(* The per-session counter (req.session.views) and the other routes do not *)
(* touch `page_views_total` or visitor_count and are left out.             *)
(* visitor_count.count is a MySQL INT; the bounds below stay far from      *)
(* 2^31 - 1, where the UPDATE would be rejected or clamped.                *)
(***************************************************************************)
EXTENDS Integers, Sequences, FiniteSets

VARIABLES
    phase,          \* "down" | "listening": the node process
    tables,         \* the tables that exist in MySQL
    visitor_count,  \* the rows of visitor_count: id -> count
    cache,          \* Redis key page_views_total: None or [value, ttl]
    pc,             \* per request: the await the handler is parked on
    totalViews,     \* per request: the handler's local `totalViews`
    res,            \* per request: the HTTP response
    log,            \* history: per request, the backend commands it ran
    hist,           \* history: starts and ends of requests, in order
    initial,        \* history: the count of row 1 when it first existed
    seeded,         \* history: some initializeDatabase ran to its end
    failures,       \* injected backend failures so far
    restarts        \* shutdowns so far

vars == <<phase, tables, visitor_count, cache, pc, totalViews, res, log,
          hist, initial, seeded, failures, restarts>>

\* ---- bounds --------------------------------------------------------------
\* NReq requests under Spec (backend failures, restarts); one more under
\* ConcSpec (no failures).
NReq == 2
BigInitial == 99
MaxFailures == 1
MaxRestarts == 1

Requests == DOMAIN pc

\* Mutant of CacheTTL: the TTL of the cache-test route.
CacheTestTTL == 30

\* ---- program constants ---------------------------------------------------
CacheTTL == 60
RowId == 1
SeedCount == 0

cacheKey == "page_views_total"

\* ---- JavaScript values ---------------------------------------------------
Null == [t |-> "null", v |-> <<>>]
Str(s) == [t |-> "string", v |-> s]
Num(n) == [t |-> "number", v |-> <<n>>]
NaN == [t |-> "NaN", v |-> <<>>]

DigitChars == <<"0", "1", "2", "3", "4", "5", "6", "7", "8", "9">>

IsDigit(c) == \E d \in 1..10 : DigitChars[d] = c

DigitVal(c) == (CHOOSE d \in 1..10 : DigitChars[d] = c) - 1

\* Number.prototype.toString on a non-negative integer: its decimal digits.
RECURSIVE NatToString(_)
NatToString(n) ==
    IF n < 10 THEN <<DigitChars[n + 1]>>
    ELSE NatToString(n \div 10) \o <<DigitChars[(n % 10) + 1]>>

\* x.toString() / String(x)
ToString(x) ==
    IF x.t = "string" THEN x.v
    ELSE IF x.t = "number" THEN NatToString(x.v[1])
    ELSE <<"n", "u", "l", "l">>

\* The longest prefix of s made of decimal digits.
RECURSIVE DigitPrefix(_)
DigitPrefix(s) ==
    IF s = <<>> \/ ~IsDigit(Head(s)) THEN <<>>
    ELSE <<Head(s)>> \o DigitPrefix(Tail(s))

RECURSIVE DigitsValue(_, _)
DigitsValue(s, acc) ==
    IF s = <<>> THEN acc
    ELSE DigitsValue(Tail(s), acc * 10 + DigitVal(Head(s)))

\* parseInt(x): String(x), then its leading digits; NaN when there are none.
ParseInt(x) ==
    LET p == DigitPrefix(ToString(x))
    IN  IF p = <<>> THEN NaN ELSE Num(DigitsValue(p, 0))

\* Mutant of PlusOne: the page shows the total read, the view not counted.
PlusNothing(x) == x

\* parseInt(totalViews) + 1
PlusOne(x) == IF x.t = "number" THEN Num(x.v[1] + 1) ELSE NaN

\* Mutant of Falsy: the cached string is tested as a number, so "0" is falsy.
FalsyAsNumber(x) ==
    \/ x.t = "null"
    \/ x.t = "string" /\ x.v \in {<<>>, <<"0">>}
    \/ x.t = "number" /\ x.v[1] = 0
    \/ x.t = "NaN"

\* !x for the values totalViews can hold: null, "" and 0 are falsy.
Falsy(x) ==
    \/ x.t = "null"
    \/ x.t = "string" /\ x.v = <<>>
    \/ x.t = "number" /\ x.v[1] = 0
    \/ x.t = "NaN"

\* rows[0]?.count || 0
CountOrZero(rows) ==
    IF RowId \in DOMAIN rows /\ ~Falsy(Num(rows[RowId])) THEN Num(rows[RowId])
    ELSE Num(0)

\* ---- Redis ---------------------------------------------------------------
NoEntry == [value |-> <<>>, ttl |-> 0]

\* GET page_views_total: the stored string, or null
RedisGet(c) == IF c = NoEntry THEN Null ELSE Str(c.value)

\* SETEX page_views_total ttl value
RedisSetEx(ttl, value) == [value |-> value, ttl |-> ttl]

\* Mutant of RedisDel: the DEL names another key and leaves the entry.
RedisDelOtherKey == cache

\* DEL page_views_total
RedisDel == NoEntry

\* ---- MySQL ---------------------------------------------------------------
NoRows == [i \in {} |-> 0]

\* Mutant of InsertIgnore: REPLACE INTO, which resets an existing row.
InsertReplace(rows) ==
    [i \in DOMAIN rows \cup {RowId} |-> IF i = RowId THEN SeedCount ELSE rows[i]]

\* INSERT IGNORE INTO visitor_count (id, count) VALUES (1, 0)
InsertIgnore(rows) ==
    IF RowId \in DOMAIN rows THEN rows
    ELSE [i \in DOMAIN rows \cup {RowId} |->
            IF i = RowId THEN SeedCount ELSE rows[i]]

\* UPDATE visitor_count SET count = count + 1 WHERE id = 1
UpdateCount(rows) ==
    [i \in DOMAIN rows |-> IF i = RowId THEN rows[i] + 1 ELSE rows[i]]

\* ---- history helpers -----------------------------------------------------
Entry(op, arg, ok) == [op |-> op, arg |-> arg, ok |-> ok]

InFlight(r) == pc[r] \in {"select", "setex", "update", "del", "render", "catch"}

RECURSIVE SeqOfSet(_)
SeqOfSet(S) ==
    IF S = {} THEN <<>>
    ELSE LET m == CHOOSE x \in S : \A y \in S : x <= y
         IN  <<m>> \o SeqOfSet(S \ {m})

Ends(kind, S) == [i \in 1..Cardinality(S) |-> <<kind, SeqOfSet(S)[i]>>]

\* ---- startup and shutdown ------------------------------------------------
\* initializeDatabase: getConnection, CREATE TABLE users, CREATE TABLE
\* visitor_count, INSERT IGNORE; the first failing query (failAt = 1..4)
\* throws into the catch, which only logs. failAt = 0: no failure.
InitTables(failAt) ==
    IF failAt \in {1, 2} THEN tables
    ELSE IF failAt = 3 THEN tables \cup {"users"}
    ELSE tables \cup {"users", "visitor_count"}

InitRows(failAt) ==
    IF failAt = 0 THEN InsertIgnore(visitor_count) ELSE visitor_count

\* startServer: await initializeDatabase(), then app.listen
StartServer(failAt) ==
    /\ phase = "down"
    /\ failAt # 0 => failures < MaxFailures
    /\ tables' = InitTables(failAt)
    /\ visitor_count' = InitRows(failAt)
    /\ initial' = IF RowId \in DOMAIN visitor_count THEN initial
                  ELSE IF failAt = 0 THEN Num(SeedCount) ELSE initial
    /\ seeded' = (seeded \/ failAt = 0)
    /\ failures' = IF failAt = 0 THEN failures ELSE failures + 1
    /\ phase' = "listening"
    /\ UNCHANGED <<cache, pc, totalViews, res, log, hist, restarts>>

\* SIGTERM: redisClient.quit(), mysqlPool.end(), process.exit(0). Commands
\* already sent are flushed; no handler continuation runs afterwards.
Shutdown ==
    /\ phase = "listening"
    /\ restarts < MaxRestarts
    /\ phase' = "down"
    /\ restarts' = restarts + 1
    /\ LET S == {r \in Requests : InFlight(r)}
       IN  /\ pc' = [r \in Requests |-> IF r \in S THEN "aborted" ELSE pc[r]]
           /\ hist' = hist \o Ends("abort", S)
    /\ UNCHANGED <<tables, visitor_count, cache, totalViews, res, log,
                   initial, seeded, failures>>

\* ---- GET / ---------------------------------------------------------------
\* Requests are interchangeable: they arrive in the order of their ids.
CanStart(r) ==
    /\ phase = "listening"
    /\ pc[r] = "idle"
    /\ r > 1 => pc[r - 1] # "idle"

\* The rejected await throws into the catch block of the handler.
Throw(r, op) ==
    /\ failures < MaxFailures
    /\ failures' = failures + 1
    /\ pc' = [pc EXCEPT ![r] = "catch"]
    /\ log' = [log EXCEPT ![r] = Append(@, Entry(op, Null, FALSE))]

\* let totalViews = await redisClient.get(cacheKey); if (!totalViews) ...
Get(r) ==
    /\ CanStart(r)
    /\ LET v == RedisGet(cache)
       IN  /\ totalViews' = [totalViews EXCEPT ![r] = v]
           /\ pc' = [pc EXCEPT ![r] = IF Falsy(v) THEN "select" ELSE "update"]
           /\ log' = [log EXCEPT ![r] = Append(@, Entry("GET", v, TRUE))]
    /\ hist' = Append(hist, <<"start", r>>)
    /\ UNCHANGED <<phase, tables, visitor_count, cache, res, initial,
                   seeded, failures, restarts>>

GetFail(r) ==
    /\ CanStart(r)
    /\ Throw(r, "GET")
    /\ hist' = Append(hist, <<"start", r>>)
    /\ UNCHANGED <<phase, tables, visitor_count, cache, totalViews, res,
                   initial, seeded, restarts>>

\* const [rows] = await mysqlPool.query('SELECT count ...');
\* totalViews = rows[0]?.count || 0;
Select(r) ==
    /\ pc[r] = "select"
    /\ IF "visitor_count" \in tables
       THEN LET v == CountOrZero(visitor_count)
            IN  /\ totalViews' = [totalViews EXCEPT ![r] = v]
                /\ pc' = [pc EXCEPT ![r] = "setex"]
                /\ log' = [log EXCEPT ![r] = Append(@, Entry("SELECT", v, TRUE))]
       ELSE /\ pc' = [pc EXCEPT ![r] = "catch"]
            /\ log' = [log EXCEPT ![r] = Append(@, Entry("SELECT", Null, FALSE))]
            /\ UNCHANGED totalViews
    /\ UNCHANGED <<phase, tables, visitor_count, cache, res, hist, initial,
                   seeded, failures, restarts>>

SelectFail(r) ==
    /\ pc[r] = "select"
    /\ Throw(r, "SELECT")
    /\ UNCHANGED <<phase, tables, visitor_count, cache, totalViews, res,
                   hist, initial, seeded, restarts>>

\* Mutant of SetEx: the total cached is the one about to be displayed.
SetExDisplayed(r) ==
    /\ pc[r] = "setex"
    /\ cache' = RedisSetEx(CacheTTL, ToString(PlusOne(totalViews[r])))
    /\ log' = [log EXCEPT ![r] = Append(@, Entry("SETEX", cache', TRUE))]
    /\ pc' = [pc EXCEPT ![r] = "update"]
    /\ UNCHANGED <<phase, tables, visitor_count, totalViews, res, hist,
                   initial, seeded, failures, restarts>>

\* await redisClient.setEx(cacheKey, 60, totalViews.toString());
SetEx(r) ==
    /\ pc[r] = "setex"
    /\ LET s == ToString(totalViews[r])
       IN  /\ cache' = RedisSetEx(CacheTTL, s)
           /\ log' = [log EXCEPT ![r] = Append(@, Entry("SETEX", cache', TRUE))]
    /\ pc' = [pc EXCEPT ![r] = "update"]
    /\ UNCHANGED <<phase, tables, visitor_count, totalViews, res, hist,
                   initial, seeded, failures, restarts>>

SetExFail(r) ==
    /\ pc[r] = "setex"
    /\ Throw(r, "SETEX")
    /\ UNCHANGED <<phase, tables, visitor_count, cache, totalViews, res,
                   hist, initial, seeded, restarts>>

\* Mutant of Update: read-modify-write, SET count = <totalViews + 1>.
UpdateReadModifyWrite(r) ==
    /\ pc[r] = "update"
    /\ "visitor_count" \in tables
    /\ visitor_count' = [i \in DOMAIN visitor_count |->
                           IF i = RowId THEN PlusOne(ParseInt(totalViews[r])).v[1]
                           ELSE visitor_count[i]]
    /\ pc' = [pc EXCEPT ![r] = "del"]
    /\ log' = [log EXCEPT ![r] = Append(@,
                 Entry("UPDATE",
                       IF RowId \in DOMAIN visitor_count
                       THEN Num(visitor_count'[RowId]) ELSE Null,
                       TRUE))]
    /\ UNCHANGED <<phase, tables, cache, totalViews, res, hist, initial,
                   seeded, failures, restarts>>

\* await mysqlPool.query('UPDATE visitor_count SET count = count + 1 ...');
\* The log keeps the count the UPDATE left, Null when no row matched.
Update(r) ==
    /\ pc[r] = "update"
    /\ IF "visitor_count" \in tables
       THEN /\ visitor_count' = UpdateCount(visitor_count)
            /\ pc' = [pc EXCEPT ![r] = "del"]
            /\ log' = [log EXCEPT ![r] = Append(@,
                         Entry("UPDATE",
                               IF RowId \in DOMAIN visitor_count
                               THEN Num(visitor_count'[RowId]) ELSE Null,
                               TRUE))]
       ELSE /\ pc' = [pc EXCEPT ![r] = "catch"]
            /\ log' = [log EXCEPT ![r] = Append(@, Entry("UPDATE", Null, FALSE))]
            /\ UNCHANGED visitor_count
    /\ UNCHANGED <<phase, tables, cache, totalViews, res, hist, initial,
                   seeded, failures, restarts>>

UpdateFail(r) ==
    /\ pc[r] = "update"
    /\ Throw(r, "UPDATE")
    /\ UNCHANGED <<phase, tables, visitor_count, cache, totalViews, res,
                   hist, initial, seeded, restarts>>

\* await redisClient.del(cacheKey);
Del(r) ==
    /\ pc[r] = "del"
    /\ cache' = RedisDel
    /\ pc' = [pc EXCEPT ![r] = "render"]
    /\ log' = [log EXCEPT ![r] = Append(@, Entry("DEL", Null, TRUE))]
    /\ UNCHANGED <<phase, tables, visitor_count, totalViews, res, hist,
                   initial, seeded, failures, restarts>>

DelFail(r) ==
    /\ pc[r] = "del"
    /\ Throw(r, "DEL")
    /\ UNCHANGED <<phase, tables, visitor_count, cache, totalViews, res,
                   hist, initial, seeded, restarts>>

\* res.render('index', { totalViews: parseInt(totalViews) + 1, ... })
Render(r) ==
    /\ pc[r] = "render"
    /\ res' = [res EXCEPT ![r] =
                 [status |-> 200, totalViews |-> PlusOne(ParseInt(totalViews[r]))]]
    /\ pc' = [pc EXCEPT ![r] = "done"]
    /\ hist' = Append(hist, <<"end", r>>)
    /\ UNCHANGED <<phase, tables, visitor_count, cache, totalViews, log,
                   initial, seeded, failures, restarts>>

\* Mutant of Catch: the catch block invalidates the cache before answering.
CatchInvalidate(r) ==
    /\ pc[r] = "catch"
    /\ cache' = NoEntry
    /\ log' = [log EXCEPT ![r] = Append(@, Entry("DEL", Null, TRUE))]
    /\ res' = [res EXCEPT ![r] = [status |-> 500, totalViews |-> Null]]
    /\ pc' = [pc EXCEPT ![r] = "failed"]
    /\ hist' = Append(hist, <<"end", r>>)
    /\ UNCHANGED <<phase, tables, visitor_count, totalViews, initial,
                   seeded, failures, restarts>>

\* catch (error) { res.status(500).send('Serverfehler'); }
Catch(r) ==
    /\ pc[r] = "catch"
    /\ res' = [res EXCEPT ![r] = [status |-> 500, totalViews |-> Null]]
    /\ pc' = [pc EXCEPT ![r] = "failed"]
    /\ hist' = Append(hist, <<"end", r>>)
    /\ UNCHANGED <<phase, tables, visitor_count, cache, totalViews, log,
                   initial, seeded, failures, restarts>>

\* The key's TTL runs out: Redis drops the entry.
Expire ==
    /\ cache # NoEntry
    /\ cache' = NoEntry
    /\ UNCHANGED <<phase, tables, visitor_count, pc, totalViews, res, log,
                   hist, initial, seeded, failures, restarts>>

\* ---- specification -------------------------------------------------------
NoResponse == [status |-> 0, totalViews |-> Null]

\* The process is not started yet. MySQL is either fresh (no tables) or kept
\* from an earlier run, with row 1 at its seed count or at a count whose
\* increment adds a digit; the cache key is absent.
InitWith(n) ==
    /\ phase = "down"
    /\ \/ /\ tables = {}
          /\ visitor_count = NoRows
          /\ initial = Null
       \/ \E c \in {SeedCount, BigInitial} :
            /\ tables = {"users", "visitor_count"}
            /\ visitor_count = [i \in {RowId} |-> c]
            /\ initial = Num(c)
    /\ seeded = FALSE
    /\ cache = NoEntry
    /\ pc = [r \in 1..n |-> "idle"]
    /\ totalViews = [r \in 1..n |-> Null]
    /\ res = [r \in 1..n |-> NoResponse]
    /\ log = [r \in 1..n |-> <<>>]
    /\ hist = <<>>
    /\ failures = 0
    /\ restarts = 0

Init == InitWith(NReq)

Next ==
    \/ \E f \in 0..4 : StartServer(f)
    \/ Shutdown
    \/ Expire
    \/ \E r \in 1..NReq :
        \/ Get(r)
        \/ GetFail(r)
        \/ Select(r)
        \/ SelectFail(r)
        \/ SetEx(r)
        \/ SetExFail(r)
        \/ Update(r)
        \/ UpdateFail(r)
        \/ Del(r)
        \/ DelFail(r)
        \/ Render(r)
        \/ Catch(r)

\* Concurrent and sequential requests, backend failures, TTL expiry, restarts.
Spec == Init /\ [][Next]_vars

InitConc == InitWith(NReq + 1)

NextConc ==
    \/ StartServer(0)
    \/ Expire
    \/ \E r \in 1..(NReq + 1) :
        \/ Get(r)
        \/ Select(r)
        \/ SetEx(r)
        \/ Update(r)
        \/ Del(r)
        \/ Render(r)

\* One more request, every interleaving, no backend failure and no restart.
ConcSpec == InitConc /\ [][NextConc]_vars

\* ---- reading the history -------------------------------------------------
\* Where <<kind, r>> stands in hist; 0 when it does not.
Pos(kind, r) ==
    IF \E i \in 1..Len(hist) : hist[i] = <<kind, r>>
    THEN CHOOSE i \in 1..Len(hist) : hist[i] = <<kind, r>>
    ELSE 0

StartPos(r) == Pos("start", r)

EndPos(r) == IF Pos("end", r) # 0 THEN Pos("end", r) ELSE Pos("abort", r)

Started(r) == StartPos(r) # 0

Ended(r) == EndPos(r) # 0

\* s was over before r started.
Before(s, r) == Ended(s) /\ Started(r) /\ EndPos(s) < StartPos(r)

\* No other request was in flight at any time while r was.
Alone(r) ==
    /\ Started(r)
    /\ \A s \in Requests \ {r} : Started(s) => Before(s, r) \/ Before(r, s)

\* r is the call that has just responded: nothing started or ended since.
JustResponded(r) == hist # <<>> /\ hist[Len(hist)] = <<"end", r>>

Ran(r, op) == \E i \in 1..Len(log[r]) : log[r][i].op = op

Threw(r, op) == \E i \in 1..Len(log[r]) : log[r][i].op = op /\ ~log[r][i].ok

\* The count r's UPDATE left in row 1; Null when no row matched or none ran.
CountAfter(r) ==
    IF \E i \in 1..Len(log[r]) : log[r][i].op = "UPDATE" /\ log[r][i].ok
    THEN (CHOOSE e \in {log[r][i] : i \in 1..Len(log[r])} : e.op = "UPDATE").arg
    ELSE Null

Ok(r) == pc[r] = "done" /\ res[r].status = 200

Total(r) == res[r].totalViews.v[1]

HasRow == RowId \in DOMAIN visitor_count

Count == visitor_count[RowId]

\* No count of these runs exceeds this.
CountBound == BigInitial + Cardinality(Requests) + 1

CacheHit(r) ==
    /\ log[r] # <<>>
    /\ log[r][1] = Entry("GET", log[r][1].arg, TRUE)
    /\ log[r][1].arg.t = "string"

CacheMiss(r) == log[r] # <<>> /\ log[r][1] = Entry("GET", Null, TRUE)

Updates(r) == {i \in 1..Len(log[r]) : log[r][i].op = "UPDATE" /\ log[r][i].ok}

\* ---- C1 ------------------------------------------------------------------
\* C1: no lost updates. Once every one of the N concurrent requests has
\* responded, with row 1 starting at count 0 and no backend failure, the
\* row's count is exactly N, whatever the interleaving of their steps.
NoLostUpdates ==
    ((\A r \in Requests : Ok(r)) /\ initial = Num(0))
        => (HasRow /\ Count = Cardinality(Requests))

\* All requests done after overlapping, two of them showing the same total.
NoLostUpdatesWitness ==
    /\ \A r \in Requests : Ok(r)
    /\ initial = Num(0)
    /\ \A r \in Requests : ~Alone(r)
    /\ \E r, s \in Requests : r # s /\ Total(r) = Total(s)

\* ---- C2 ------------------------------------------------------------------
\* C2: calls run strictly one after another, with no backend failure and the
\* cache empty at first, display initial+1, initial+2, ..., initial+N in
\* that order: the k-th call displays initial + k.
SequentialTotals ==
    \A r \in Requests :
        (Ok(r) /\ \A s \in 1..r : Alone(s))
            => (res[r].totalViews = Num(initial.v[1] + r))

\* Every call ran alone, starting from a count whose increment adds a digit.
SequentialTotalsWitness ==
    /\ \A r \in Requests : Ok(r) /\ Alone(r)
    /\ initial = Num(BigInitial)
    /\ Total(Cardinality(Requests)) = BigInitial + Cardinality(Requests)

\* ---- C9 ------------------------------------------------------------------
\* C9: read-after-write consistency of the displayed total. If B starts after
\* A has responded successfully, B displays more than A did and at least the
\* count A's increment left plus 1, whatever other requests interleave.
ReadAfterWrite ==
    \A a, b \in Requests :
        (Ok(a) /\ Ok(b) /\ Before(a, b))
            => /\ Total(b) > Total(a)
               /\ CountAfter(a) # Null => Total(b) >= CountAfter(a).v[1] + 1

\* ---- C3 ------------------------------------------------------------------
\* C3 as stated: in every state in which some call has just finished, the
\* cache entry is absent.
CacheAbsentAfterAnyCall ==
    \A r \in Requests : JustResponded(r) => cache = NoEntry

\* The same for successful calls only; a concurrent SETEX refutes it too.
CacheAbsentAfterSuccess ==
    \A r \in Requests : (JustResponded(r) /\ Ok(r)) => cache = NoEntry

\* C3 amended: when a call that overlapped no other call has just responded
\* with the rendered page, the cache entry is absent.
CacheAbsentAfterLoneSuccess ==
    \A r \in Requests : (JustResponded(r) /\ Ok(r) /\ Alone(r)) => cache = NoEntry

\* A lone successful call that found the entry left by a failed call.
CacheAbsentWitness ==
    \E r, s \in Requests :
        /\ JustResponded(r) /\ Ok(r) /\ Alone(r)
        /\ CacheHit(r)
        /\ pc[s] = "failed" /\ Ran(s, "SETEX")

\* ---- C4 ------------------------------------------------------------------
\* C4: a call whose GET found the value V in the cache never SELECTs and
\* never SETEXes; when it responds it displays V + 1, after exactly one
\* UPDATE; and that UPDATE raises the row's count by exactly 1, whatever the
\* count was.
HitInv ==
    \A r \in Requests :
        CacheHit(r) =>
            /\ ~Ran(r, "SELECT")
            /\ ~Ran(r, "SETEX")
            /\ Ok(r) =>
                /\ \E n \in 0..CountBound :
                     /\ log[r][1].arg.v = NatToString(n)
                     /\ res[r].totalViews = Num(n + 1)
                /\ Cardinality(Updates(r)) = 1

HitStep ==
    \A r \in Requests :
        (CacheHit(r) /\ pc[r] = "update" /\ pc'[r] = "del" /\ HasRow)
            => visitor_count'[RowId] = Count + 1

CacheHitReturnsVPlusOne == []HitInv /\ [][HitStep]_vars

\* A hit on a stale value: the count the UPDATE left is not V + 1.
CacheHitWitness ==
    \E r \in Requests :
        /\ CacheHit(r) /\ Ok(r)
        /\ CountAfter(r) # Null
        /\ CountAfter(r) # res[r].totalViews

\* ---- C5 ------------------------------------------------------------------
\* C5: a call that runs alone, misses the cache and finds row 1 at count c
\* runs GET (miss), SELECT (c), SETEX (c as a string, 60 seconds), UPDATE
\* (leaving c + 1), DEL, in this order, and displays c + 1; when it has just
\* responded the row holds c + 1 and the cache entry is absent.
MissPath ==
    \A r \in Requests :
        (Ok(r) /\ Alone(r) /\ CacheMiss(r) /\ CountAfter(r) # Null) =>
            \E c \in 0..CountBound :
                /\ log[r] = << Entry("GET", Null, TRUE),
                               Entry("SELECT", Num(c), TRUE),
                               Entry("SETEX", [value |-> NatToString(c), ttl |-> 60], TRUE),
                               Entry("UPDATE", Num(c + 1), TRUE),
                               Entry("DEL", Null, TRUE) >>
                /\ res[r] = [status |-> 200, totalViews |-> Num(c + 1)]
                /\ JustResponded(r) => (HasRow /\ Count = c + 1 /\ cache = NoEntry)

\* The spec's example shape, on a two-digit count.
MissPathWitness ==
    \E r \in Requests :
        /\ Ok(r) /\ Alone(r) /\ CacheMiss(r) /\ JustResponded(r)
        /\ res[r].totalViews = Num(BigInitial + 1)

\* ---- C6 ------------------------------------------------------------------
\* C6: when the SELECT or the UPDATE of a call fails, that is the last
\* command the call runs (no cache command follows), the call never renders
\* a total, and it ends with HTTP 500.
StoreFailurePropagates ==
    \A r \in Requests : \A i \in 1..Len(log[r]) :
        (log[r][i].op \in {"SELECT", "UPDATE"} /\ ~log[r][i].ok) =>
            /\ i = Len(log[r])
            /\ pc[r] \in {"catch", "failed", "aborted"}
            /\ res[r].status # 200
            /\ res[r].totalViews = Null
            /\ pc[r] = "failed" => res[r].status = 500

\* The UPDATE failed after the SETEX: the call ended 500, the entry stays.
StoreFailureWitness ==
    \E r \in Requests :
        /\ pc[r] = "failed" /\ res[r].status = 500
        /\ Threw(r, "UPDATE") /\ Ran(r, "SETEX")
        /\ cache # NoEntry

\* ---- C7 ------------------------------------------------------------------
\* C7: a call during which a cache command (GET, SETEX, DEL) fails while the
\* store works still succeeds: it renders the store's count before its
\* increment plus 1 and increments the store exactly once.
CacheFailureNonFatal ==
    \A r \in Requests :
        (/\ pc[r] \in {"done", "failed"}
         /\ Threw(r, "GET") \/ Threw(r, "SETEX") \/ Threw(r, "DEL")
         /\ ~Threw(r, "SELECT") /\ ~Threw(r, "UPDATE"))
            => /\ res[r].status = 200
               /\ Cardinality(Updates(r)) = 1
               /\ CountAfter(r) # Null => res[r].totalViews = CountAfter(r)

\* ---- C8 ------------------------------------------------------------------
\* C8: once initializeDatabase has run to its end, visitor_count holds
\* exactly one row, id 1; the row never disappears and its count never
\* decreases in any step, a restart's INSERT IGNORE included.
OneRow == seeded => DOMAIN visitor_count = {RowId}

CountStep == HasRow => (RowId \in DOMAIN visitor_count' /\ visitor_count'[RowId] >= Count)

OneRowMonotone == []OneRow /\ [][CountStep]_vars

\* After a restart whose initializeDatabase succeeded, the count of the
\* earlier page views is still there.
OneRowWitness ==
    /\ restarts >= 1 /\ phase = "listening" /\ failures = 0
    /\ seeded /\ initial = Num(0)
    /\ HasRow /\ Count >= 1
    /\ \E r \in Requests : pc[r] = "idle"

\* ---- C10 -----------------------------------------------------------------
\* C10: the displayed total never runs ahead of the durable count: a call
\* that responded with a total, its UPDATE having found row 1, displays at
\* most the row's count, at its response and ever after.
NeverAhead ==
    \A r \in Requests :
        (Ok(r) /\ CountAfter(r) # Null) => (HasRow /\ Total(r) <= Count)

\* A stale total strictly behind the count, beside a failed call.
NeverAheadWitness ==
    \E r, s \in Requests :
        /\ Ok(r) /\ CountAfter(r) # Null /\ Total(r) < Count
        /\ pc[s] = "failed"

====
